---- MODULE Spec2Model ----
(***************************************************************************)
(* Model of the coupled pirates / ships / police simulation:               *)
(*   lib/evolution.py            one_step_evolution and the driver         *)
(*                               evolution                                 *)
(*   simulations/prova/parameters.py   kappa, cut_off_C, speed_ships, nu   *)
(* The steppers pde.one_step_parabolic, pde.one_step_hyperbolic, ode.ode   *)
(* and save.solution_Save are modelled from their documented contracts.    *)
(*                                                                         *)
(* Numbers are exact integers on a unit mesh (dx = dy = dt-unit = 1); a    *)
(* 2d numpy array is a sequence of rows, each row a sequence of numbers.   *)
(* Python indices are 0-based, the sequences here 1-based: the Python      *)
(* index i of time/printing is element i + 1.                              *)
(***************************************************************************)
EXTENDS Integers, Sequences, FiniteSets, TLC

\* ------------------------------------------------------------------ bounds
MaxLenTime == 3      \* longest time schedule len(pirates.time)
MaxM == 2            \* largest number of police vessels
NX == 2              \* mesh columns (n_x)
NY == 2              \* mesh rows (n_y)

\* --------------------------------------------------------- scaled constants
Radius2 == 2         \* radius**2 of cut_off_C in mesh units
CutNorm == 47        \* the 0.3 normalisation threshold of cut_off_C, same units
KappaEps == 1        \* eps = 0.2 of kappa, in fifths
KappaOne == 5        \* the gradient norm 1.0 of kappa, in fifths
Far == 8             \* a coordinate outside the support of the cut-off

VARIABLES
    pirates,        \* the scenario object handed to evolution (read-only)
    p_density,      \* evolution: current pirate field
    s_density,      \* evolution: current ship field
    police,         \* evolution: current list of police positions
    i,              \* evolution: Python time index of the current step
    print_number,   \* evolution: number of the next snapshot
    pc,             \* control position
    M,              \* one_step_evolution: len(police)
    police_sum_x,   \* one_step_evolution: sum of the x positions
    police_sum_y,   \* one_step_evolution: sum of the y positions
    f,              \* one_step_evolution: police source accumulator
    parabolic_args, \* arguments of the last pde.one_step_parabolic call
    hyperbolic_args,\* arguments of the last pde.one_step_hyperbolic call
    p_new,          \* one_step_evolution: new pirate field
    s_new,          \* one_step_evolution: new ship field
    police_new,     \* one_step_evolution: new police list being built
    forces,         \* arguments of the ode.ode calls of the current step
    calls,          \* log of one_step_evolution invocations (arguments)
    returns,        \* log of one_step_evolution results
    saved,          \* log of save.solution_Save invocations
    raised          \* exception that left evolution, with its time index

vars == <<pirates, p_density, s_density, police, i, print_number, pc, M,
          police_sum_x, police_sum_y, f, parabolic_args, hyperbolic_args,
          p_new, s_new, police_new, forces, calls, returns, saved, raised>>

\* ----------------------------------------------------------- numpy helpers
\* the tuple <<fn[1], ..., fn[n]>>
RECURSIVE TupleUpTo(_, _)
TupleUpTo(fn, n) == IF n = 0 THEN <<>> ELSE Append(TupleUpTo(fn, n - 1), fn[n])

\* the h x w array whose cell (r, c) is F(r, c)
Array(h, w, F(_, _)) ==
    TupleUpTo([r \in 1..h |-> TupleUpTo([c \in 1..w |-> F(r, c)], w)], h)

Rows(A) == Len(A)
Cols(A) == IF Len(A) = 0 THEN 0 ELSE Len(A[1])

\* numpy.shape
Shape(A) == <<Rows(A), Cols(A)>>

\* elementwise application; the array arguments are evaluated once
Map1(A, Op(_)) ==
    CHOOSE R \in {Array(Rows(a), Cols(a), LAMBDA r, c : Op(a[r][c])) :
                      a \in {A}} : TRUE
Map2(A, B, Op(_, _)) ==
    CHOOSE R \in {Array(Rows(a), Cols(a), LAMBDA r, c : Op(a[r][c], b[r][c])) :
                      a \in {A}, b \in {B}} : TRUE

\* sum of a sequence of numbers
RECURSIVE SumUpTo(_, _)
SumUpTo(s, n) == IF n = 0 THEN 0 ELSE SumUpTo(s, n - 1) + s[n]
SumSeq(s) == CHOOSE t \in {SumUpTo(v, Len(v)) : v \in {s}} : TRUE

\* numpy.sum of a 2d array
SumArr(A) ==
    CHOOSE t \in {SumSeq(TupleUpTo([r \in 1..Rows(a) |-> SumSeq(a[r])], Rows(a))) :
                      a \in {A}} : TRUE

\* numpy.zeros_like / numpy.ones_like
ZerosLike(A) == Map1(A, LAMBDA x : 0)
OnesLike(A) == Map1(A, LAMBDA x : 1)

\* elementwise array arithmetic
Add(A, B) == Map2(A, B, LAMBDA x, y : x + y)
Mul(A, B) == Map2(A, B, LAMBDA x, y : x * y)
Scale(k, A) == Map1(A, LAMBDA x : k * x)
Neg(A) == Scale(-1, A)
\* floor(A / k) for the fixed-point quotients
DivS(A, k) == Map1(A, LAMBDA x : x \div k)
\* array - scalar and scalar - array
SubS(A, k) == Map1(A, LAMBDA x : x - k)
SSub(k, A) == Map1(A, LAMBDA x : k - x)

\* floor square root (numpy.sqrt on the integer grid)
RECURSIVE ISqrtFrom(_, _)
ISqrtFrom(n, k) == IF (k + 1) * (k + 1) > n THEN k ELSE ISqrtFrom(n, k + 1)
ISqrt(n) == ISqrtFrom(n, 0)

\* scipy.signal.convolve2d(A, K, mode='same'): the part of the full
\* convolution of the size of A, centred
Convolve2dSame(A, K) ==
    CHOOSE R \in {
        LET offr == (Rows(k) - 1) \div 2
            offc == (Cols(k) - 1) \div 2
            term(n, m, r, c) ==
                LET kr == n - r + offr + 1
                    kc == m - c + offc + 1
                IN IF kr \in 1..Rows(k) /\ kc \in 1..Cols(k)
                   THEN a[r][c] * k[kr][kc] ELSE 0
        IN Array(Rows(a), Cols(a), LAMBDA n, m :
              SumSeq([r \in 1..Rows(a) |->
                  SumSeq([c \in 1..Cols(a) |-> term(n, m, r, c)])]))
        : a \in {A}, k \in {K}} : TRUE

\* numpy.gradient along one axis of a sequence v with spacing h, at index k:
\* centred differences inside, one-sided first-order differences at both ends
Grad1(v, h, k) ==
    IF k = 1 THEN (v[2] - v[1]) \div h
    ELSE IF k = Len(v) THEN (v[k] - v[k - 1]) \div h
    ELSE (v[k + 1] - v[k - 1]) \div (2 * h)

\* numpy.gradient(A, dy, dx)[0]: derivative along the rows axis
GradRows(A, h) ==
    CHOOSE R \in {Array(Rows(a), Cols(a), LAMBDA r, c :
                      Grad1([k \in 1..Rows(a) |-> a[k][c]], h, r)) :
                      a \in {A}} : TRUE
\* numpy.gradient(A, dy, dx)[1]: derivative along the columns axis
GradCols(A, h) ==
    CHOOSE R \in {Array(Rows(a), Cols(a), LAMBDA r, c : Grad1(a[r], h, c)) :
                      a \in {A}} : TRUE

\* ------------------------------------------- simulations/prova/parameters.py
\* kappa(x) = (x - eps) / (1 - eps) for eps < x < 1 and 0 elsewhere (A2 is
\* identically 0); x is in fifths, the value is KappaNum(x) / KappaDen
KappaNum(x) == IF x > KappaEps /\ x < KappaOne THEN x - KappaEps ELSE 0
KappaDen == KappaOne - KappaEps

\* speed_ships(A) = v_max - A / A_max with v_max = A_max = 1
speed_ships(A) == Map1(A, LAMBDA x : 1 - x)

\* nu(x, y) = (ones, zeros) on the mesh
nu(xx) == <<OnesLike(xx), ZerosLike(xx)>>

\* cut_off_C(x, y): x and y are meshes
cut_off_C(X, Y) ==
    CHOOSE R \in {
        LET k == Map2(x, y, LAMBDA u, v :
                     IF u * u + v * v < Radius2
                     THEN Radius2 - u * u - v * v ELSE 0)
            C == SumArr(k) * (x[1][2] - x[1][1]) * (y[2][1] - y[1][1])
        IN IF C < CutNorm THEN k ELSE DivS(k, C)
        : x \in {X}, y \in {Y}} : TRUE

\* ------------------------------------------------ pde, ode (from contracts)
\* pde.one_step_parabolic: explicit forward-time update, flux term and source
\* term scaled by dt and added to the current field
one_step_parabolic(p, xx, yy, dv, source, dx, dy, dt) ==
    Add(p, Scale(dt, Add(dv, source)))

\* pde.one_step_hyperbolic: new = old - dt * div(speed(old) * velocity * old),
\* upwind according to the sign of the velocity
one_step_hyperbolic(s, vel_x, vel_y, dx, dy, dt) ==
    CHOOSE R \in {
        LET at(F, r, c) ==
                IF r \in 1..Rows(F) /\ c \in 1..Cols(F) THEN F[r][c] ELSE 0
            dFx(r, c) == IF vx[r][c] >= 0 THEN at(Fx, r, c) - at(Fx, r, c - 1)
                         ELSE at(Fx, r, c + 1) - at(Fx, r, c)
            dFy(r, c) == IF vy[r][c] >= 0 THEN at(Fy, r, c) - at(Fy, r - 1, c)
                         ELSE at(Fy, r + 1, c) - at(Fy, r, c)
        IN Array(Rows(Fx), Cols(Fx), LAMBDA r, c :
              old[r][c] - dt * ((dFx(r, c) \div dx) + (dFy(r, c) \div dy)))
        : old \in {s}, vx \in {vel_x}, vy \in {vel_y},
          Fx \in {Mul(Mul(speed_ships(s), s), vel_x)},
          Fy \in {Mul(Mul(speed_ships(s), s), vel_y)}} : TRUE

\* ode.ode: explicit forward Euler, (x + dt*Fx, y + dt*Fy)
ode(Fx, Fy, pos, dt) == <<pos[1] + dt * Fx, pos[2] + dt * Fy>>

\* ------------------------------------------- lib/evolution.py, one step
\* variant: the y-mesh is never compared (its assertion only repeats another)
ShapesOK_NoYMesh(p, s, xx, yy) ==
    /\ Shape(p) = Shape(s)
    /\ Shape(p) = Shape(xx)
    /\ Shape(p) = Shape(xx)

\* the shape assertions
ShapesOK(p, s, xx, yy) ==
    /\ Shape(p) = Shape(s)
    /\ Shape(p) = Shape(xx)
    /\ Shape(p) = Shape(yy)
    /\ Shape(p) = Shape(yy)

\* police_sum_x, police_sum_y
PoliceSumX(pol) == SumSeq([k \in 1..Len(pol) |-> pol[k][1]])
PoliceSumY(pol) == SumSeq([k \in 1..Len(pol) |-> pol[k][2]])

\* div: minus the divergence of the flux kappa(|grad|) * grad * p_density
DivTerm(p, s, p_kernel, dx, dy) ==
    LET p_convolution == Scale(dx * dy, Convolve2dSame(s, p_kernel))
        grad_py == GradRows(p_convolution, dy)
        grad_px == GradCols(p_convolution, dx)
        norm_grad_p_convolution ==
            Map2(grad_px, grad_py, LAMBDA gx, gy : ISqrt(gx * gx + gy * gy))
        kappa_num == Map1(norm_grad_p_convolution, KappaNum)
        flux_x == DivS(Mul(Mul(kappa_num, grad_px), p), KappaDen)
        flux_y == DivS(Mul(Mul(kappa_num, grad_py), p), KappaDen)
        div1 == GradCols(flux_x, dx)
        div2 == GradRows(flux_y, dy)
    IN Add(Neg(div1), Neg(div2))

\* the loop "f += a[i] * cut_off(xx - police[i][0], yy - police[i][1])" raises
\* IndexError at i = len(a) when a is shorter than police
SourceRaises(a, pol) == Len(a) < Len(pol)

\* f after the first n iterations of that loop, starting from zeros_like(xx)
RECURSIVE SourceUpTo(_, _, _, _, _)
SourceUpTo(n, a, pol, xx, yy) ==
    IF n = 0 THEN ZerosLike(xx)
    ELSE Add(SourceUpTo(n - 1, a, pol, xx, yy),
             Scale(a[n], cut_off_C(SubS(xx, pol[n][1]), SubS(yy, pol[n][2]))))

\* variant: the accumulator starts from ones_like instead of zeros_like
SourceTerm_OnesInit(a, pol, xx, yy) ==
    Add(OnesLike(xx), SourceUpTo(Len(pol), a, pol, xx, yy))

SourceTerm(a, pol, xx, yy) == SourceUpTo(Len(pol), a, pol, xx, yy)

\* cal_I2_x, cal_I2_y after the first n iterations of the police loop
RECURSIVE CalI2(_, _, _, _, _)
CalI2(n, pol, xx, yy, coord) ==
    IF n = 0 THEN ZerosLike(xx)
    ELSE Add(CalI2(n - 1, pol, xx, yy, coord),
             Mul(cut_off_C(SubS(xx, pol[n][1]), SubS(yy, pol[n][2])),
                 SSub(pol[n][coord], IF coord = 1 THEN xx ELSE yy)))

\* vel_x, vel_y: the velocity field handed to the hyperbolic stepper
Velocity(p, pol, xx, yy, dx, dy, nu_x, nu_y) ==
    LET cal_I1_x == Scale(-(dx * dy), Convolve2dSame(p, Mul(xx, cut_off_C(xx, yy))))
        cal_I1_y == Scale(-(dx * dy), Convolve2dSame(p, Mul(yy, cut_off_C(xx, yy))))
        cal_I_x == Add(cal_I1_x, CalI2(Len(pol), pol, xx, yy, 1))
        cal_I_y == Add(cal_I1_y, CalI2(Len(pol), pol, xx, yy, 2))
    IN <<Add(cal_I_x, nu_x), Add(cal_I_y, nu_y)>>

\* F1: density force on the agent at pos
ForceF1(p, s, pos, xx, yy, dx, dy) ==
    CHOOSE F \in {<<dx * dy * SumArr(Mul(temp, SubS(xx, pos[1]))),
                     dx * dy * SumArr(Mul(temp, SubS(yy, pos[2])))>> :
                  temp \in {Mul(Mul(cut_off_C(SSub(pos[1], xx), SSub(pos[2], yy)),
                                    p), s)}} : TRUE

\* variant: the agent itself is left out of the count
ForceF2_OthersOnly(sum_x, sum_y, m, pos) ==
    <<sum_x - (m - 1) * pos[1], sum_y - (m - 1) * pos[2]>>

\* F2: cohesion force from the precomputed sums
ForceF2(sum_x, sum_y, m, pos) == <<sum_x - m * pos[1], sum_y - m * pos[2]>>

\* F3: control force
ForceF3 == <<0, 0>>

\* ------------------------------------------------------------- scenarios
MeshX(h, w) == Array(h, w, LAMBDA r, c : c - 1)
MeshY(h, w) == Array(h, w, LAMBDA r, c : r - 1)
ZeroField(h, w) == Array(h, w, LAMBDA r, c : 0)
BumpField(h, w) == Array(h, w, LAMBDA r, c : IF r = 1 /\ c = 1 THEN 2 ELSE 0)
\* initial (pirate, ship) densities: both zero, both a bump in the first
\* cell, or pirates only
Densities(h, w) == {<<ZeroField(h, w), ZeroField(h, w)>>,
                    <<BumpField(h, w), BumpField(h, w)>>,
                    <<BumpField(h, w), ZeroField(h, w)>>}
\* un-normalised mollifier shape, peak in the first cell
KernelK(h, w) ==
    Array(h, w, LAMBDA r, c :
        LET d == (r - 1) * (r - 1) + (c - 1) * (c - 1)
        IN IF d < Radius2 THEN Radius2 - d ELSE 0)

Positions == {<<0, 1>>, <<Far, Far>>}
PoliceLists == UNION {[1..m -> Positions] : m \in 0..MaxM}
\* coefficient vectors: all zero, or 1, 2, ..., of every length up to MaxM + 1
CoeffVectors ==
    UNION {{[k \in 1..n |-> 0], [k \in 1..n |-> k]} : n \in 0..(MaxM + 1)}
\* which argument, if any, has a shape different from the pirate field
Mismatches == {"none", "s", "xx", "yy"}

Scenario(nt, prn, pol, av, dens, bad) ==
    [initial_density_pirates |-> dens[1],
     initial_density_ships |->
         IF bad = "s" THEN ZeroField(NY, NX + 1) ELSE dens[2],
     police_initial_positions |-> pol,
     x_mesh |-> IF bad = "xx" THEN MeshX(NY + 1, NX) ELSE MeshX(NY, NX),
     y_mesh |-> IF bad = "yy" THEN MeshY(NY, NX + 1) ELSE MeshY(NY, NX),
     kernel_mathcal_K |-> KernelK(NY, NX),
     dx |-> 1, dy |-> 1, dt |-> 1,
     a |-> av,
     time |-> [j \in 1..nt |-> j - 1],
     printing |-> prn]

\* ---------------------------------------------------------------- driver
\* str(print_number).zfill(4)
RECURSIVE ZFill(_, _)
ZFill(str, width) == IF Len(str) >= width THEN str ELSE ZFill("0" \o str, width)

\* variant: the number is not padded
SnapshotName_NoPad(n) == "saving_" \o ToString(n)

\* 'saving_' + str(print_number).zfill(4)
SnapshotName(n) == "saving_" \o ZFill(ToString(n), 4)

\* variant: the driver swallows the exception and goes on with the loop
Propagate_Swallowed == "loop"

\* no handler encloses the call: an exception of the step leaves evolution
Propagate == "failed"

Init ==
    \E nt \in 1..MaxLenTime, pol \in PoliceLists, av \in CoeffVectors,
       dens \in Densities(NY, NX), bad \in Mismatches :
      \E prn \in [1..nt -> BOOLEAN] :
        \* the initial state is flagged for printing
        /\ prn[1]
        \* the scenarios with a shape mismatch carry zero densities
        /\ bad # "none" => dens[1] = ZeroField(NY, NX)
        /\ pirates = Scenario(nt, prn, pol, av, dens, bad)
        /\ p_density = pirates.initial_density_pirates
        /\ s_density = pirates.initial_density_ships
        /\ police = pirates.police_initial_positions
        /\ i = 0
        /\ print_number = 1
        /\ pc = "loop"
        /\ M = 0
        /\ police_sum_x = 0
        /\ police_sum_y = 0
        /\ f = <<>>
        /\ parabolic_args = <<>>
        /\ hyperbolic_args = <<>>
        /\ p_new = <<>>
        /\ s_new = <<>>
        /\ police_new = <<>>
        /\ forces = <<>>
        /\ calls = <<>>
        /\ returns = <<>>
        /\ saved = <<>>
        /\ raised = <<>>

\* for i in xrange(1, len(pirates.time)): call one_step_evolution
LoopEnter ==
    /\ pc = "loop"
    /\ i + 1 < Len(pirates.time)
    /\ i' = i + 1
    /\ calls' = Append(calls, [i |-> i + 1, p |-> p_density, s |-> s_density,
                               police |-> police])
    /\ f' = <<>>
    /\ parabolic_args' = <<>>
    /\ hyperbolic_args' = <<>>
    /\ p_new' = <<>>
    /\ s_new' = <<>>
    /\ police_new' = <<>>
    /\ forces' = <<>>
    /\ pc' = "assert"
    /\ M' = 0
    /\ police_sum_x' = 0
    /\ police_sum_y' = 0
    /\ UNCHANGED <<pirates, p_density, s_density, police, print_number,
                   returns, saved, raised>>

\* the range is exhausted: evolution returns
LoopExit ==
    /\ pc = "loop"
    /\ ~(i + 1 < Len(pirates.time))
    /\ pc' = "done"
    /\ UNCHANGED <<pirates, p_density, s_density, police, i, print_number, M,
                   police_sum_x, police_sum_y, f, parabolic_args,
                   hyperbolic_args, p_new, s_new, police_new, forces, calls, returns,
                   saved, raised>>

\* variant: M is taken from the coefficient vector
AssertPass_MFromCoeffs ==
    /\ pc = "assert"
    /\ ShapesOK(p_density, s_density, pirates.x_mesh, pirates.y_mesh)
    /\ police_sum_x' = PoliceSumX(police)
    /\ police_sum_y' = PoliceSumY(police)
    /\ M' = Len(pirates.a)
    /\ pc' = "pirate"
    /\ UNCHANGED <<pirates, p_density, s_density, police, i, print_number, f,
                   parabolic_args, hyperbolic_args, p_new, s_new, police_new,
                   forces, calls, returns, saved, raised>>

\* the assertions hold; police_sum_x, police_sum_y, M
AssertPass ==
    /\ pc = "assert"
    /\ ShapesOK(p_density, s_density, pirates.x_mesh, pirates.y_mesh)
    /\ police_sum_x' = PoliceSumX(police)
    /\ police_sum_y' = PoliceSumY(police)
    /\ M' = Len(police)
    /\ pc' = "pirate"
    /\ UNCHANGED <<pirates, p_density, s_density, police, i, print_number, f,
                   parabolic_args, hyperbolic_args, p_new, s_new, police_new,
                   forces, calls, returns, saved, raised>>

\* an assertion fails: AssertionError
AssertFail ==
    /\ pc = "assert"
    /\ ~ShapesOK(p_density, s_density, pirates.x_mesh, pirates.y_mesh)
    /\ raised' = <<[exc |-> "AssertionError", i |-> i]>>
    /\ pc' = Propagate
    /\ UNCHANGED <<pirates, p_density, s_density, police, i, print_number, M,
                   police_sum_x, police_sum_y, f, parabolic_args,
                   hyperbolic_args, p_new, s_new, police_new, forces, calls, returns,
                   saved>>

\* evolution of the pirate density: div, f, pde.one_step_parabolic
PirateStep ==
    /\ pc = "pirate"
    /\ ~SourceRaises(pirates.a, police)
    /\ \E dv \in {DivTerm(p_density, s_density, pirates.kernel_mathcal_K,
                            pirates.dx, pirates.dy)},
          ff \in {SourceTerm(pirates.a, police, pirates.x_mesh, pirates.y_mesh)} :
          /\ f' = ff
          /\ parabolic_args' = [div |-> dv, source |-> Neg(ff)]
          /\ p_new' = one_step_parabolic(p_density, pirates.x_mesh,
                          pirates.y_mesh, dv, Neg(ff), pirates.dx, pirates.dy,
                          pirates.dt)
    /\ pc' = "ship"
    /\ UNCHANGED <<pirates, p_density, s_density, police, i, print_number, M,
                   police_sum_x, police_sum_y, hyperbolic_args, s_new,
                   police_new, forces, calls, returns, saved, raised>>

\* a[i] with i = len(a) < len(police): IndexError inside the f loop
PirateIndexError ==
    /\ pc = "pirate"
    /\ SourceRaises(pirates.a, police)
    /\ f' = SourceUpTo(Len(pirates.a), pirates.a, police, pirates.x_mesh,
                       pirates.y_mesh)
    /\ raised' = <<[exc |-> "IndexError", i |-> i]>>
    /\ pc' = Propagate
    /\ UNCHANGED <<pirates, p_density, s_density, police, i, print_number, M,
                   police_sum_x, police_sum_y, parabolic_args, hyperbolic_args,
                   p_new, s_new, police_new, forces, calls, returns, saved>>

\* variant: the velocity field is computed from the new pirate field
ShipStep_UsesPNew ==
    /\ pc = "ship"
    /\ \E vel \in {Velocity(p_new, police, pirates.x_mesh, pirates.y_mesh,
                              pirates.dx, pirates.dy, nu(pirates.x_mesh)[1],
                              nu(pirates.x_mesh)[2])} :
          /\ hyperbolic_args' = [s |-> s_density, vel_x |-> vel[1], vel_y |-> vel[2]]
          /\ s_new' = one_step_hyperbolic(s_density, vel[1], vel[2],
                          pirates.dx, pirates.dy, pirates.dt)
    /\ pc' = "police"
    /\ UNCHANGED <<pirates, p_density, s_density, police, i, print_number, M,
                   police_sum_x, police_sum_y, f, parabolic_args, p_new,
                   police_new, forces, calls, returns, saved, raised>>

\* evolution of the ship density: vel_x, vel_y, pde.one_step_hyperbolic
ShipStep ==
    /\ pc = "ship"
    /\ \E vel \in {Velocity(p_density, police, pirates.x_mesh, pirates.y_mesh,
                              pirates.dx, pirates.dy, nu(pirates.x_mesh)[1],
                              nu(pirates.x_mesh)[2])} :
          /\ hyperbolic_args' = [s |-> s_density, vel_x |-> vel[1], vel_y |-> vel[2]]
          /\ s_new' = one_step_hyperbolic(s_density, vel[1], vel[2],
                          pirates.dx, pirates.dy, pirates.dt)
    /\ pc' = "police"
    /\ UNCHANGED <<pirates, p_density, s_density, police, i, print_number, M,
                   police_sum_x, police_sum_y, f, parabolic_args, p_new,
                   police_new, forces, calls, returns, saved, raised>>

\* variant: the new position is inserted at the front of the list
PoliceStep_Prepend ==
    /\ pc = "police"
    /\ Len(police_new) < Len(police)
    /\ \E k \in {Len(police_new) + 1} :
       \E F1 \in {ForceF1(p_density, s_density, police[k], pirates.x_mesh,
                           pirates.y_mesh, pirates.dx, pirates.dy)},
          F2 \in {ForceF2(police_sum_x, police_sum_y, M, police[k])},
          F3 \in {ForceF3} :
       \E Fx \in {F1[1] + F2[1] + F3[1]}, Fy \in {F1[2] + F2[2] + F3[2]} :
          /\ forces' = Append(forces, [F1 |-> F1, F2 |-> F2, F3 |-> F3,
                                       Fx |-> Fx, Fy |-> Fy, pos |-> police[k],
                                       dt |-> pirates.dt])
          /\ police_new' = <<ode(Fx, Fy, police[k], pirates.dt)>> \o police_new
    /\ UNCHANGED <<pirates, p_density, s_density, police, i, print_number, pc,
                   M, police_sum_x, police_sum_y, f, parabolic_args,
                   hyperbolic_args, p_new, s_new, calls, returns, saved, raised>>

\* one iteration of the police loop: F1, F2, F3, ode.ode, append
PoliceStep ==
    /\ pc = "police"
    /\ Len(police_new) < Len(police)
    /\ \E k \in {Len(police_new) + 1} :
       \E F1 \in {ForceF1(p_density, s_density, police[k], pirates.x_mesh,
                           pirates.y_mesh, pirates.dx, pirates.dy)},
          F2 \in {ForceF2(police_sum_x, police_sum_y, M, police[k])},
          F3 \in {ForceF3} :
       \E Fx \in {F1[1] + F2[1] + F3[1]}, Fy \in {F1[2] + F2[2] + F3[2]} :
          /\ forces' = Append(forces, [F1 |-> F1, F2 |-> F2, F3 |-> F3,
                                       Fx |-> Fx, Fy |-> Fy, pos |-> police[k],
                                       dt |-> pirates.dt])
          /\ police_new' = Append(police_new, ode(Fx, Fy, police[k], pirates.dt))
    /\ UNCHANGED <<pirates, p_density, s_density, police, i, print_number, pc,
                   M, police_sum_x, police_sum_y, f, parabolic_args,
                   hyperbolic_args, p_new, s_new, calls, returns, saved, raised>>

\* variant: the driver keeps stepping from the ship field it started with
Return_StaleShips ==
    /\ pc = "police"
    /\ ~(Len(police_new) < Len(police))
    /\ p_density' = p_new
    /\ s_density' = s_density
    /\ police' = police_new
    /\ returns' = Append(returns, [p |-> p_new, s |-> s_new,
                                   police |-> police_new, forces |-> forces])
    /\ pc' = "printing"
    /\ UNCHANGED <<pirates, i, print_number, M, police_sum_x, police_sum_y, f,
                   parabolic_args, hyperbolic_args, p_new, s_new, police_new,
                   forces, calls, saved, raised>>

\* return (p_new, s_new, police_new), assigned by the driver
Return ==
    /\ pc = "police"
    /\ ~(Len(police_new) < Len(police))
    /\ p_density' = p_new
    /\ s_density' = s_new
    /\ police' = police_new
    /\ returns' = Append(returns, [p |-> p_new, s |-> s_new,
                                   police |-> police_new, forces |-> forces])
    /\ pc' = "printing"
    /\ UNCHANGED <<pirates, i, print_number, M, police_sum_x, police_sum_y, f,
                   parabolic_args, hyperbolic_args, p_new, s_new, police_new,
                   forces, calls, saved, raised>>

\* if pirates.printing[i]: save.solution_Save(...); print_number += 1
Save ==
    /\ pc = "printing"
    /\ pirates.printing[i + 1]
    /\ saved' = Append(saved, [name |-> SnapshotName(print_number),
                               time |-> pirates.time[i + 1],
                               p |-> p_density, s |-> s_density,
                               police |-> police, i |-> i])
    /\ print_number' = print_number + 1
    /\ pc' = "loop"
    /\ UNCHANGED <<pirates, p_density, s_density, police, i, M, police_sum_x,
                   police_sum_y, f, parabolic_args, hyperbolic_args, p_new,
                   s_new, police_new, forces, calls, returns, raised>>

\* pirates.printing[i] is false
NoSave ==
    /\ pc = "printing"
    /\ ~pirates.printing[i + 1]
    /\ pc' = "loop"
    /\ UNCHANGED <<pirates, p_density, s_density, police, i, print_number, M,
                   police_sum_x, police_sum_y, f, parabolic_args,
                   hyperbolic_args, p_new, s_new, police_new, forces, calls, returns,
                   saved, raised>>

Next ==
    \/ LoopEnter
    \/ LoopExit
    \/ AssertPass
    \/ AssertFail
    \/ PirateStep
    \/ PirateIndexError
    \/ ShipStep
    \/ PoliceStep
    \/ Return
    \/ Save
    \/ NoSave

Spec == Init /\ [][Next]_vars

\* ================================================================ claims
\* the arguments of the one_step_evolution call in progress or just finished
LastCall == calls[Len(calls)]
\* the call has been entered and has not yet returned or raised
InCall == pc \in {"assert", "pirate", "ship", "police"}
IsZero(A) == \A r \in 1..Rows(A) : \A c \in 1..Cols(A) : A[r][c] = 0
SumX(pol) == SumSeq([k \in 1..Len(pol) |-> pol[k][1]])
SumY(pol) == SumSeq([k \in 1..Len(pol) |-> pol[k][2]])

\* C1: whenever len(a) differs from the number of police agents, the step
\* raises: no call with mismatched lengths runs to its return.
C1_CoeffMismatchAlwaysFails ==
    (calls # <<>> /\ Len(pirates.a) # Len(LastCall.police) /\ ~InCall)
        => raised # <<>>

\* C2: when the ship field, the x-mesh or the y-mesh has a shape different
\* from the pirate field, the step ends in AssertionError at the assertions:
\* no stepper has been invoked and nothing has been returned.
C2_ShapeMismatchFailsBeforeSteppers ==
    (/\ calls # <<>>
     /\ pc # "assert"
     /\ \/ Shape(LastCall.s) # Shape(LastCall.p)
        \/ Shape(pirates.x_mesh) # Shape(LastCall.p)
        \/ Shape(pirates.y_mesh) # Shape(LastCall.p))
        => /\ pc = "failed"
           /\ raised = <<[exc |-> "AssertionError", i |-> LastCall.i]>>
           /\ parabolic_args = <<>>
           /\ hyperbolic_args = <<>>
           /\ forces = <<>>
           /\ p_new = <<>> /\ s_new = <<>> /\ police_new = <<>>
           /\ Len(returns) < Len(calls)

C2_Witness ==
    /\ pc = "failed"
    /\ raised # <<>>
    /\ raised[1].exc = "AssertionError"
    /\ Shape(pirates.y_mesh) # Shape(p_density)
    /\ Shape(pirates.x_mesh) = Shape(p_density)
    /\ Shape(s_density) = Shape(p_density)

\* C3: the police list built by a step is, entry by entry, the forward-Euler
\* image of the input list in the same order, the returned list has the
\* input's length, and the driver's list always has the initial length M.
C3_PoliceLengthAndOrder ==
    /\ Len(police) = Len(pirates.police_initial_positions)
    /\ pc \in {"police", "printing"} =>
         /\ Len(police_new) <= Len(LastCall.police)
         /\ Len(forces) = Len(police_new)
         /\ \A k \in 1..Len(police_new) :
               police_new[k] =
                   <<LastCall.police[k][1] + pirates.dt * forces[k].Fx,
                     LastCall.police[k][2] + pirates.dt * forces[k].Fy>>
    /\ \A n \in 1..Len(returns) :
         Len(returns[n].police) = Len(calls[n].police)
    /\ pc = "printing" => police = police_new

C3_Witness ==
    /\ pc = "printing"
    /\ i = 2
    /\ Len(police) = 2
    /\ police[1] # police[2]
    /\ police # LastCall.police

\* C4: within a call every coupling term is a function of the arguments of
\* the call: the velocity field, each agent's F1 and F2 and the position it
\* is stepped from; and the arguments are untouched while the call runs.
C4_ReadsPreStepState ==
    /\ InCall =>
         /\ p_density = LastCall.p
         /\ s_density = LastCall.s
         /\ police = LastCall.police
    /\ pc \in {"police", "printing"} =>
         /\ hyperbolic_args.s = LastCall.s
         /\ <<hyperbolic_args.vel_x, hyperbolic_args.vel_y>> =
               Velocity(LastCall.p, LastCall.police, pirates.x_mesh,
                        pirates.y_mesh, pirates.dx, pirates.dy,
                        OnesLike(pirates.x_mesh), ZerosLike(pirates.x_mesh))
         /\ \A k \in 1..Len(forces) :
               /\ forces[k].pos = LastCall.police[k]
               /\ forces[k].F1 = ForceF1(LastCall.p, LastCall.s,
                                         LastCall.police[k], pirates.x_mesh,
                                         pirates.y_mesh, pirates.dx, pirates.dy)
               /\ forces[k].F2 =
                     <<SumX(LastCall.police)
                           - Len(LastCall.police) * LastCall.police[k][1],
                       SumY(LastCall.police)
                           - Len(LastCall.police) * LastCall.police[k][2]>>

C4_Witness ==
    /\ pc = "printing"
    /\ Len(forces) = 2
    /\ p_new # LastCall.p
    /\ s_new # LastCall.s
    /\ police_new # LastCall.police
    /\ forces[2].F1 # <<0, 0>>

\* the time indices whose step and printing decision are both finished
Finished(n) == n < i \/ (n = i /\ pc \in {"loop", "done"})

\* C5: the calls are numbered 1, 2, ... once each in increasing order, the
\* first receives the initial data and each later one the result of the one
\* before; a finished run has made len(time) - 1 calls; persistence is invoked
\* at index n exactly when printing[n] holds, after the step of n has
\* returned, with time[n] and the state returned by that step.
C5_DriverCallsAndPersistence ==
    /\ Len(calls) = i
    /\ \A n \in 1..Len(calls) :
         /\ calls[n].i = n
         /\ n = 1 => /\ calls[n].p = pirates.initial_density_pirates
                     /\ calls[n].s = pirates.initial_density_ships
                     /\ calls[n].police = pirates.police_initial_positions
         /\ n > 1 => /\ calls[n].p = returns[n - 1].p
                     /\ calls[n].s = returns[n - 1].s
                     /\ calls[n].police = returns[n - 1].police
    /\ pc = "done" => Len(calls) = Len(pirates.time) - 1
    /\ \A n \in 1..(Len(pirates.time) - 1) :
         (Finished(n) /\ pirates.printing[n + 1])
             <=> (\E j \in 1..Len(saved) : saved[j].i = n)
    /\ \A j \in 1..Len(saved) :
         /\ saved[j].i \in 1..Len(returns)
         /\ saved[j].time = pirates.time[saved[j].i + 1]
         /\ saved[j].p = returns[saved[j].i].p
         /\ saved[j].s = returns[saved[j].i].s
         /\ saved[j].police = returns[saved[j].i].police

C5_Witness ==
    /\ pc = "done"
    /\ Len(calls) = 2
    /\ Len(saved) = 1
    /\ saved[1].i = 2
    /\ calls[2].p # calls[1].p
    /\ calls[2].police # calls[1].police
    /\ saved[1].p # calls[2].p

\* C6: with one police agent and zero pirate and ship densities the cohesion
\* force F2 and the net force handed to ode.ode are (0, 0), and the agent
\* keeps its position.
C6_SingleAgentStaysPut ==
    (/\ pc \in {"police", "printing"}
     /\ Len(LastCall.police) = 1
     /\ IsZero(LastCall.p) /\ IsZero(LastCall.s)
     /\ Len(forces) = 1)
        => /\ forces[1].F2 = <<0, 0>>
           /\ forces[1].Fx = 0 /\ forces[1].Fy = 0
           /\ police_new = LastCall.police

C6_Witness ==
    /\ pc = "printing"
    /\ LastCall.police = <<(<<0, 1>>)>>
    /\ IsZero(LastCall.p) /\ IsZero(LastCall.s)
    /\ Len(forces) = 1
    /\ police = <<(<<0, 1>>)>>

\* the cut-off of the agent at pos vanishes on the whole mesh
CutOffVanishes(pos) ==
    IsZero(cut_off_C(SubS(pirates.x_mesh, pos[1]), SubS(pirates.y_mesh, pos[2])))

\* C7: with a all zero and every agent placed where the cut-off vanishes on
\* the mesh, f is zero in every cell, the source handed to the parabolic
\* stepper is zero, and the new pirate field is the old one advanced by the
\* divergence term alone.
C7_ZeroSource ==
    (/\ pc \in {"ship", "police", "printing"}
     /\ \A k \in 1..Len(pirates.a) : pirates.a[k] = 0
     /\ \A k \in 1..Len(LastCall.police) : CutOffVanishes(LastCall.police[k]))
        => /\ IsZero(f)
           /\ IsZero(parabolic_args.source)
           /\ Shape(f) = Shape(LastCall.p)
           /\ \A r \in 1..Rows(p_new) : \A c \in 1..Cols(p_new) :
                 p_new[r][c] = LastCall.p[r][c]
                                 + pirates.dt * parabolic_args.div[r][c]

C7_Witness ==
    /\ pc = "ship"
    /\ Len(LastCall.police) = 2
    /\ Len(pirates.a) = 2
    /\ \A k \in 1..Len(pirates.a) : pirates.a[k] = 0
    /\ \A k \in 1..Len(LastCall.police) : CutOffVanishes(LastCall.police[k])
    /\ ~IsZero(parabolic_args.div)
    /\ IsZero(f)

\* C8: once a step has raised at index n, evolution is over: the failed
\* call is the last call, nothing is returned for it, and every snapshot
\* belongs to an index below n whose printing flag is set.
C8_NoRetryAfterFailure ==
    raised # <<>> =>
        /\ pc = "failed"
        /\ Len(raised) = 1
        /\ raised[1].i = i
        /\ Len(calls) = raised[1].i
        /\ Len(returns) = raised[1].i - 1
        /\ \A j \in 1..Len(saved) :
              saved[j].i < raised[1].i /\ pirates.printing[saved[j].i + 1]

C8_Witness ==
    /\ pc = "failed"
    /\ raised # <<>>
    /\ Len(pirates.time) = 3
    /\ pirates.printing[2] /\ pirates.printing[3]
    /\ Len(calls) = 1
    /\ saved = <<>>

\* every density force of every finished step was zero
AllF1Zero ==
    \A n \in 1..Len(returns) : \A k \in 1..Len(returns[n].forces) :
        returns[n].forces[k].F1 = <<0, 0>>

ExpectedNames == <<"saving_0001", "saving_0002", "saving_0003", "saving_0004",
                   "saving_0005", "saving_0006">>
\* the time indices 1 .. len(time) - 1 with printing set, in increasing order
PrintIndices ==
    SelectSeq([n \in 1..(Len(pirates.time) - 1) |-> n],
              LAMBDA n : pirates.printing[n + 1])

\* C10: the k-th persistence call carries the name saving_ followed by k in
\* four digits and belongs to the k-th index >= 1 whose printing flag is set;
\* a finished run has made one call per such index; printing[0] causes none.
C10_SnapshotNumbering ==
    /\ Len(saved) <= Len(PrintIndices)
    /\ print_number = Len(saved) + 1
    /\ \A k \in 1..Len(saved) :
         /\ saved[k].name = ExpectedNames[k]
         /\ saved[k].i = PrintIndices[k]
         /\ saved[k].i >= 1
    /\ pc = "done" => Len(saved) = Len(PrintIndices)

C10_Witness ==
    /\ pc = "done"
    /\ pirates.printing = <<TRUE, FALSE, TRUE>>
    /\ Len(saved) = 1
    /\ saved[1].name = "saving_0001"
    /\ saved[1].i = 2

====
